---- MODULE Spec2Model ----
(***************************************************************************)
(* Model of scripts/spanish.py: the comment language scanner.              *)
(*                                                                         *)
(* A Python str is a sequence of characters, each written as a string:     *)
(* an ASCII character as itself, any other as its code point, "U+0085".    *)
(* The ripgrep                                                             *)
(* subprocess and langdetect's detect() are external collaborators: their  *)
(* results are inputs, drawn from small sets.                              *)
(***************************************************************************)
EXTENDS Naturals, Sequences, FiniteSets

VARIABLES
    pc,                \* position in main()
    directory,         \* what args.directory names on disk
    returncode,        \* how the rg subprocess ended
    comments,          \* result.stdout.split('\n')
    idx,               \* number of elements of comments the for loop consumed
    comments_by_lang,  \* the defaultdict(list): bucket -> list of records
    detect_calls,      \* log of the calls to detect(): line index, text, result
    exc,               \* the exception in flight / handled ("none" if none)
    out                \* what main() printed, one entry per print() call

vars == <<pc, directory, returncode, comments, idx, comments_by_lang,
          detect_calls, exc, out>>

----------------------------------------------------------------------------
(* Bounds of the model *)

\* most lines the search tool writes to its standard output in one run
MaxLines == 3

\* most records per bucket of a synthetic mapping (SpecReport)
MaxRecs == 2

----------------------------------------------------------------------------
(* Python string operations *)

\* str.isspace() / regex \s on one character of a str: the two agree, and take
\* the ASCII whitespace, the separators U+001C..U+001F and the Unicode spaces
IsSpace(c) ==
    c \in {" ", "\t", "\n", "\r", "\f", "U+000B",
           "U+001C", "U+001D", "U+001E", "U+001F", "U+0085", "U+00A0",
           "U+1680", "U+2000", "U+2001", "U+2002", "U+2003", "U+2004",
           "U+2005", "U+2006", "U+2007", "U+2008", "U+2009", "U+200A",
           "U+2028", "U+2029", "U+202F", "U+205F", "U+3000"}

RECURSIVE LStrip(_)
\* str.lstrip()
LStrip(s) ==
    IF s # <<>> /\ IsSpace(Head(s)) THEN LStrip(Tail(s)) ELSE s

RECURSIVE RStrip(_)
\* str.rstrip()
RStrip(s) ==
    IF s # <<>> /\ IsSpace(s[Len(s)]) THEN RStrip(SubSeq(s, 1, Len(s) - 1)) ELSE s

\* str.strip()
Strip(s) == RStrip(LStrip(s))

\* str.find(c): index of the first c in s, 0 when there is none
Find(s, c) ==
    IF \E i \in 1..Len(s) : s[i] = c
    THEN CHOOSE i \in 1..Len(s) : s[i] = c /\ \A j \in 1..(i - 1) : s[j] # c
    ELSE 0

RECURSIVE Split(_, _, _)
\* str.split(sep, maxsplit) for a one-character sep; maxsplit = -1 is written
\* as a maxsplit no string reaches
Split(s, sep, maxsplit) ==
    LET i == Find(s, sep) IN
    IF maxsplit = 0 \/ i = 0
    THEN <<s>>
    ELSE <<SubSeq(s, 1, i - 1)>> \o Split(SubSeq(s, i + 1, Len(s)), sep, maxsplit - 1)

\* characters of s up to, not including, the first newline: what .* matches
DotStar(s) ==
    LET n == Find(s, "\n") IN IF n = 0 THEN s ELSE SubSeq(s, 1, n - 1)

\* a search for a single "/" in place of "//"
re_search_one_slash(content) ==
    LET i == Find(content, "/") IN
    IF i = 0
    THEN [matched |-> FALSE, group1 |-> <<>>]
    ELSE [matched |-> TRUE,
          group1 |-> DotStar(LStrip(SubSeq(content, i + 1, Len(content))))]

\* re.search(r'//\s*(.*)', content): leftmost "//", then greedy whitespace, then
\* group(1) is the rest of the line.  matched = FALSE models a None result.
re_search(content) ==
    LET starts == {i \in 1..(Len(content) - 1) : content[i] = "/" /\ content[i + 1] = "/"}
    IN  IF starts = {}
        THEN [matched |-> FALSE, group1 |-> <<>>]
        ELSE LET i == CHOOSE k \in starts : \A m \in starts : k <= m
                 rest == SubSeq(content, i + 2, Len(content))
             IN  [matched |-> TRUE, group1 |-> DotStar(LStrip(rest))]

----------------------------------------------------------------------------
(* The external collaborators' possible results *)

\* what args.directory can name
DirectoryKinds == {"missing", "file", "dir"}

\* how the rg subprocess can end: it cannot be started, or it exits 0 (matches),
\* 1 (no match) or 2 (an error, possibly after some matches)
ReturnCodes == {"not_started", "exit0", "exit1", "exit2"}

\* language codes detect() returns
Langs == {"es", "en"}

\* results of one detect() call: a code, or an exception
DetectResults == Langs \cup {"raise"}

\* keys the defaultdict can hold
BucketNames == Langs \cup {"unknown"}

\* lines of the decoded output of the search tool (without their newline);
\* text=True has translated every line ending to "\n", so none holds "\r"
Lines == {
    <<"a", ":", "1", ":", "/", "/", "h", "o", "l", "a">>,                 \* a:1://hola
    <<"a", ":", "2", ":", " ", "/", "/", " ", "h", "o", "l", "a", "U+00A0">>, \* a:2:_//_hola NBSP
    <<"b", ":", "1", ":", "x", "/", "/", "a", ":", "/", "/", "b">>,       \* b:1:x//a://b
    <<"a", ":", "1", ":", "/", "/", "a", "b", "c", "\f">>,                \* a:1://abc FF
    <<"b", ":", "1", ":", "/", "h", "o", "l", "a", "/">>,                 \* b:1:/hola/
    <<"a", ":", "1", "/", "/", "h", "o", "l", "a">>,                      \* a:1//hola
    <<" ", "\t">>,                                                        \* blank: _ TAB
    <<"/", "/", "h", "o", "l", "a", ":", "1", ":", "x">>                  \* //hola:1:x
}

RECURSIVE SeqsUpTo(_, _)
\* the sequences of at most n elements of S
SeqsUpTo(S, n) ==
    IF n = 0 THEN {<<>>}
    ELSE LET shorter == SeqsUpTo(S, n - 1)
         IN  shorter \cup {Append(q, x) : q \in shorter, x \in S}

RECURSIVE Output(_)
\* the standard output for a sequence of matched lines: each ends in a newline
Output(ls) ==
    IF ls = <<>> THEN <<>> ELSE Head(ls) \o <<"\n">> \o Output(Tail(ls))

\* standard outputs of a run
StdOuts == {Output(ls) : ls \in SeqsUpTo(Lines, MaxLines)}

\* what rg can have written for each exit status: matches with 0, nothing with
\* 1, and with 2 whatever it matched before the error
StdOutsOf(rc) ==
    CASE rc = "exit0" -> StdOuts \ {<<>>}
      [] rc = "exit1" -> {<<>>}
      [] OTHER -> {Output(ls) : ls \in SeqsUpTo(Lines, 1)}

----------------------------------------------------------------------------
(* get_rust_comments *)

\* os.path.exists(directory)
path_exists(d) == d # "missing"

\* a parse that takes a line with one ':' as file and content
ParseLineLoose(line) ==
    LET parts == Split(line, ":", 2) IN
    IF Len(parts) < 2
    THEN [ok |-> FALSE, filename |-> <<>>, line_num |-> <<>>, content |-> <<>>]
    ELSE IF Len(parts) = 2
    THEN [ok |-> TRUE, filename |-> parts[1], line_num |-> <<>>, content |-> parts[2]]
    ELSE [ok |-> TRUE, filename |-> parts[1], line_num |-> parts[2], content |-> parts[3]]

\* lines 40-44: split on the first two ':'; ok = FALSE when fewer than 3 parts
ParseLine(line) ==
    LET parts == Split(line, ":", 2) IN
    IF Len(parts) < 3
    THEN [ok |-> FALSE, filename |-> <<>>, line_num |-> <<>>, content |-> <<>>]
    ELSE [ok |-> TRUE, filename |-> parts[1], line_num |-> parts[2], content |-> parts[3]]

\* the length test off by one
IsLongEnoughOffByOne(comment_text) == Len(comment_text) >= 3

\* line 50: very short comments are ignored
IsLongEnough(comment_text) == Len(comment_text) > 3

\* a record that keeps the content as it stands in the line
MakeRecordRaw(filename, line_num, content, comment_text) ==
    [file |-> filename, line |-> line_num, content |-> content,
     comment_text |-> comment_text]

\* the dict stored for one comment
MakeRecord(filename, line_num, content, comment_text) ==
    [file |-> filename, line |-> line_num, content |-> Strip(content),
     comment_text |-> comment_text]

\* insertion at the front of the list
ListPrepend(bucket, rec) == <<rec>> \o bucket

\* list.append
ListAppend(bucket, rec) == Append(bucket, rec)

\* an except clause that drops the comment
ClassifyDropFailure(cbl, rec, result) ==
    IF result = "raise"
    THEN cbl
    ELSE [cbl EXCEPT ![result] = Append(@, rec)]

\* lines 51-67: the try block appends to the bucket of the returned code, the
\* bare except appends to 'unknown'
Classify(cbl, rec, result) ==
    IF result = "raise"
    THEN [cbl EXCEPT !["unknown"] = ListAppend(@, rec)]
    ELSE [cbl EXCEPT ![result] = ListAppend(@, rec)]

\* the text detect() is called on for this line, if it is called at all
CommentOf(line) ==
    LET p == ParseLine(line)
        m == re_search(p.content)
        text == Strip(m.group1)
    IN  [call |-> Strip(line) # <<>> /\ p.ok /\ m.matched /\ IsLongEnough(text),
         rec  |-> MakeRecord(p.filename, p.line_num, p.content, text)]

EmptyBuckets == [b \in BucketNames |-> <<>>]

\* an exception object: its class and str(e)
Raise(type, message) == [type |-> type, message |-> message]

NoException == Raise("none", "")

Init ==
    /\ pc = "start"
    /\ directory \in DirectoryKinds
    /\ returncode = "none"
    /\ comments = <<>>
    /\ idx = 0
    /\ comments_by_lang = EmptyBuckets
    /\ detect_calls = <<>>
    /\ exc = NoException
    /\ out = <<>>

\* lines 19-20
CheckDirectory ==
    /\ pc = "start"
    /\ IF path_exists(directory)
       THEN /\ pc' = "search"
            /\ exc' = exc
       ELSE /\ pc' = "except"
            /\ exc' = Raise("FileNotFoundError", "Directory not found: {directory}")
    /\ UNCHANGED <<directory, returncode, comments, idx, comments_by_lang,
                   detect_calls, out>>

\* the exceptions subprocess.run raises when rg cannot be executed
LaunchErrors == {
    Raise("FileNotFoundError", "[Errno 2] No such file or directory: 'rg'"),
    Raise("PermissionError", "[Errno 13] Permission denied: 'rg'")
}

\* lines 23-33: subprocess.run without check=True returns whatever the exit
\* status.  It raises when the child cannot change to the directory or execute
\* rg, and, with text=True, when the bytes rg wrote do not decode.
RunSearch ==
    /\ pc = "search"
    /\ IF directory = "file"
       THEN /\ pc' = "except"
            /\ exc' = Raise("NotADirectoryError", "[Errno 20] Not a directory: {directory}")
            /\ returncode' = "not_started"
            /\ UNCHANGED comments
       ELSE \E rc \in ReturnCodes :
            /\ returncode' = rc
            /\ IF rc = "not_started"
               THEN /\ pc' = "except"
                    /\ exc' \in LaunchErrors
                    /\ UNCHANGED comments
               ELSE \/ /\ pc' = "loop"
                       /\ exc' = exc
                       /\ \E stdout \in StdOutsOf(rc) :
                              comments' = Split(stdout, "\n", Len(stdout))
                    \/ /\ rc \in {"exit0", "exit2"}
                       /\ pc' = "except"
                       /\ exc' = Raise("UnicodeDecodeError",
                              "'utf-8' codec can't decode byte {byte} in position {pos}: {reason}")
                       /\ UNCHANGED comments
    /\ UNCHANGED <<directory, idx, comments_by_lang, detect_calls, out>>

\* lines 35-67: one iteration of the for loop
ProcessLine ==
    /\ pc = "loop"
    /\ idx < Len(comments)
    /\ idx' = idx + 1
    /\ LET c == CommentOf(comments[idx + 1]) IN
       IF c.call
       THEN \E result \in DetectResults :
            /\ detect_calls' = Append(detect_calls,
                   [at |-> idx + 1, text |-> c.rec.comment_text, result |-> result])
            /\ comments_by_lang' = Classify(comments_by_lang, c.rec, result)
       ELSE UNCHANGED <<comments_by_lang, detect_calls>>
    /\ UNCHANGED <<pc, directory, returncode, comments, exc, out>>

\* line 69
ReturnComments ==
    /\ pc = "loop"
    /\ idx = Len(comments)
    /\ pc' = "print"
    /\ UNCHANGED <<directory, returncode, comments, idx, comments_by_lang,
                   detect_calls, exc, out>>

----------------------------------------------------------------------------
(* Reporting *)

\* one print() call: the f-string, and the values formatted into it
Printed(fmt, str, num) == [fmt |-> fmt, e |-> "", str |-> str, num |-> num]

\* a print() call that formats an exception's message
PrintError(fmt, e) == [fmt |-> fmt, e |-> e, str |-> <<>>, num |-> 0]

\* dict.get(key, [])
Get(cbl, key) == IF key \in DOMAIN cbl THEN cbl[key] ELSE <<>>

RECURSIVE PrintEach(_)
\* lines 79-82: three prints per comment
PrintEach(cs) ==
    IF cs = <<>> THEN <<>>
    ELSE << Printed("\nFile: {file}", Head(cs).file, 0),
            Printed("Line: {line}", Head(cs).line, 0),
            Printed("Content: {content}", Head(cs).content, 0) >> \o PrintEach(Tail(cs))

\* a listing that also prints the 'unknown' bucket
print_es_and_unknown(cbl) ==
    <<[fmt |-> "\n=== Spanish Comments (es) ===", e |-> "", str |-> <<>>, num |-> 0]>>
    \o PrintEach(IF "es" \in DOMAIN cbl THEN cbl["es"] ELSE <<>>)
    \o PrintEach(IF "unknown" \in DOMAIN cbl THEN cbl["unknown"] ELSE <<>>)

\* lines 78-82: what print_comments_by_language prints
print_comments_by_language(cbl) ==
    <<Printed("\n=== Spanish Comments (es) ===", <<>>, 0)>> \o PrintEach(Get(cbl, "es"))

\* an assignment of 1 in place of the increment
IncrementNoCount(files_to_translate, file) ==
    IF \E i \in 1..Len(files_to_translate) : files_to_translate[i].file = file
    THEN files_to_translate
    ELSE Append(files_to_translate, [file |-> file, count |-> 1])

\* files_to_translate[file] += 1 on a defaultdict(int); the dict keeps its keys
\* in insertion order
Increment(files_to_translate, file) ==
    IF \E i \in 1..Len(files_to_translate) : files_to_translate[i].file = file
    THEN LET i == CHOOSE k \in 1..Len(files_to_translate) :
                      files_to_translate[k].file = file
         IN  [files_to_translate EXCEPT ![i].count = @ + 1]
    ELSE Append(files_to_translate, [file |-> file, count |-> 1])

RECURSIVE CountFiles(_, _)
\* lines 107-108
CountFiles(files_to_translate, cs) ==
    IF cs = <<>> THEN files_to_translate
    ELSE CountFiles(Increment(files_to_translate, Head(cs).file), Tail(cs))

\* lines 104-111: what generate_translation_todo prints
generate_translation_todo(cbl) ==
    LET files_to_translate == CountFiles(<<>>, Get(cbl, "es")) IN
    <<Printed("\n=== Files to Translate Summary ===", <<>>, 0)>> \o
    [i \in 1..Len(files_to_translate) |->
        Printed("\n{file}: {count} Spanish comments",
              files_to_translate[i].file, files_to_translate[i].count)]

\* line 129
PrintComments ==
    /\ pc = "print"
    /\ out' = out \o print_comments_by_language(comments_by_lang)
    /\ pc' = "todo"
    /\ UNCHANGED <<directory, returncode, comments, idx, comments_by_lang,
                   detect_calls, exc>>

\* line 130
GenerateTodo ==
    /\ pc = "todo"
    /\ out' = out \o generate_translation_todo(comments_by_lang)
    /\ pc' = "done"
    /\ UNCHANGED <<directory, returncode, comments, idx, comments_by_lang,
                   detect_calls, exc>>

\* isinstance(e, cls) for the classes main() names
IsInstance(e, cls) ==
    \/ e.type = cls
    \/ cls = "Exception" /\ e.type # "none"

\* lines 131-136: the first except clause whose class matches
ErrorReport(e) ==
    IF IsInstance(e, "FileNotFoundError")
    THEN PrintError("Error: {e}", e.message)
    ELSE IF IsInstance(e, "CalledProcessError")
    THEN PrintError("Error: Unable to search in directory: {directory}", "")
    ELSE PrintError("Error: An unexpected error occurred: {e}", e.message)

HandleError ==
    /\ pc = "except"
    /\ out' = Append(out, ErrorReport(exc))
    /\ pc' = "done"
    /\ UNCHANGED <<directory, returncode, comments, idx, comments_by_lang,
                   detect_calls, exc>>

Next ==
    \/ CheckDirectory
    \/ RunSearch
    \/ ProcessLine
    \/ ReturnComments
    \/ PrintComments
    \/ GenerateTodo
    \/ HandleError

Spec == Init /\ [][Next]_vars

----------------------------------------------------------------------------
(* The reporting functions on their own, applied to any mapping *)

\* records a synthetic mapping is built from
SampleRecords == {
    MakeRecord(<<"a">>, <<"1">>, <<"/", "/", "h", "o", "l", "a">>, <<"h", "o", "l", "a">>),
    MakeRecord(<<"a">>, <<"2">>, <<"/", "/", "a", "b", "c", "d">>, <<"a", "b", "c", "d">>),
    MakeRecord(<<"b">>, <<"1">>, <<"/", "/", "h", "o", "l", "a">>, <<"h", "o", "l", "a">>)
}

\* a dict whose keys are some of the bucket names, each with a non-empty list
Mappings ==
    UNION {[D -> SeqsUpTo(SampleRecords, MaxRecs) \ {<<>>}] : D \in SUBSET BucketNames}

InitReport ==
    /\ pc = "print"
    /\ directory = "dir"
    /\ returncode = "exit0"
    /\ comments = <<>>
    /\ idx = 0
    /\ comments_by_lang \in Mappings
    /\ detect_calls = <<>>
    /\ exc = NoException
    /\ out = <<>>

NextReport ==
    \/ PrintComments
    \/ GenerateTodo

SpecReport == InitReport /\ [][NextReport]_vars

----------------------------------------------------------------------------
(* Vocabulary of the properties, defined from the search-output format *)

Min(S) == CHOOSE x \in S : \A y \in S : x <= y
Max(S) == CHOOSE x \in S : \A y \in S : y <= x

\* the characters Unicode (and Python) count as whitespace
Blank(c) ==
    \/ c \in {" ", "\t", "\n", "\r", "\f", "U+000B", "U+0085", "U+00A0", "U+1680"}
    \/ c \in {"U+001C", "U+001D", "U+001E", "U+001F"}
    \/ c \in {"U+2000", "U+2001", "U+2002", "U+2003", "U+2004", "U+2005", "U+2006",
              "U+2007", "U+2008", "U+2009", "U+200A"}
    \/ c \in {"U+2028", "U+2029", "U+202F", "U+205F", "U+3000"}

\* s without its leading and trailing blanks
Trim(s) ==
    LET solid == {i \in 1..Len(s) : ~Blank(s[i])} IN
    IF solid = {} THEN <<>> ELSE SubSeq(s, Min(solid), Max(solid))

Colons(line) == {i \in 1..Len(line) : line[i] = ":"}

\* the line has a file, a line number and a content part
SplitsInThree(line) == Cardinality(Colons(line)) >= 2

FirstColon(line) == Min(Colons(line))
SecondColon(line) == Min(Colons(line) \ {FirstColon(line)})

FileOf(line) == SubSeq(line, 1, FirstColon(line) - 1)
NumberOf(line) == SubSeq(line, FirstColon(line) + 1, SecondColon(line) - 1)
ContentOf(line) == SubSeq(line, SecondColon(line) + 1, Len(line))

Delimiters(s) == {i \in 1..(Len(s) - 1) : s[i] = "/" /\ s[i + 1] = "/"}

HasDelimiter(s) == Delimiters(s) # {}

\* everything after the first "//"
TextAfterDelimiter(s) == SubSeq(s, Min(Delimiters(s)) + 2, Len(s))

CommentText(s) == Trim(TextAfterDelimiter(s))

\* the line is one a record is made for
Qualifies(line) ==
    /\ SplitsInThree(line)
    /\ HasDelimiter(ContentOf(line))
    /\ Len(CommentText(ContentOf(line))) > 3

\* the record of a qualifying line, content and comment text trimmed
ExpectedRecord(line) ==
    [file |-> FileOf(line), line |-> NumberOf(line),
     content |-> Trim(ContentOf(line)),
     comment_text |-> CommentText(ContentOf(line))]

\* the record of a qualifying line with the content part and the text after the
\* delimiter taken as they stand in the line
RawRecord(line) ==
    [file |-> FileOf(line), line |-> NumberOf(line),
     content |-> ContentOf(line),
     comment_text |-> TextAfterDelimiter(ContentOf(line))]

\* the bucket a detect() result leads to
BucketOf(result) == IF result = "raise" THEN "unknown" ELSE result

Calls == 1..Len(detect_calls)

\* detect() calls made for line i
CallsAt(i) == {k \in Calls : detect_calls[k].at = i}

\* the place in its bucket of the record of the k-th detect() call
Position(k) ==
    Cardinality({j \in 1..k :
        BucketOf(detect_calls[j].result) = BucketOf(detect_calls[k].result)})

\* the record of the k-th detect() call sits at its place and equals rec
Stored(k, rec) ==
    LET bucket == comments_by_lang[BucketOf(detect_calls[k].result)] IN
    /\ Position(k) <= Len(bucket)
    /\ bucket[Position(k)] = rec

AllRecords ==
    UNION {{comments_by_lang[b][k] : k \in 1..Len(comments_by_lang[b])} : b \in BucketNames}

Scanning == pc \in {"loop", "print", "todo", "done"} /\ exc.type = "none"
Scanned == pc \in {"print", "todo", "done"} /\ exc.type = "none"

----------------------------------------------------------------------------
(* Properties *)

\* C1 (as claimed): whenever the path does not name an existing directory, the
\* scan fails with FileNotFoundError and main prints only the not-found message.
C1_NotFoundReported ==
    (pc = "done" /\ directory # "dir") =>
        /\ exc.type = "FileNotFoundError"
        /\ out = <<PrintError("Error: {e}", "Directory not found: {directory}")>>

\* C2 (as claimed): when the search process cannot be started or exits with an
\* error status, main prints the search-failure message.
C2_SearchFailureReported ==
    (pc = "done" /\ directory = "dir" /\ returncode \in {"not_started", "exit2"}) =>
        \E i \in 1..Len(out) :
            out[i].fmt = "Error: Unable to search in directory: {directory}"

\* C3: a failing detect() never raises out of the scan; the comment it failed
\* on is stored in the 'unknown' bucket, and every line after it is still
\* parsed and classified: detect() is called for exactly the qualifying lines
\* read so far and each later comment is stored under its own result.
C3_DetectionFailureNotFatal ==
    /\ detect_calls # <<>> => Scanning
    /\ Len(comments_by_lang["unknown"]) =
           Cardinality({k \in Calls : detect_calls[k].result = "raise"})
    /\ \A k \in Calls :
           detect_calls[k].result = "raise" =>
               /\ Stored(k, ExpectedRecord(comments[detect_calls[k].at]))
               /\ \A i \in (detect_calls[k].at + 1)..idx :
                      Qualifies(comments[i]) =>
                          \E j \in CallsAt(i) :
                              /\ j > k
                              /\ Stored(j, ExpectedRecord(comments[i]))
    /\ Scanned => idx = Len(comments)

\* C3 witness: the scan returned after a detection failure followed by a
\* comment that was classified.
C3_Witness ==
    /\ Scanned
    /\ \E k, j \in Calls :
           /\ k < j
           /\ detect_calls[k].result = "raise"
           /\ detect_calls[j].result = "es"

\* C4: every record of every bucket has trimmed comment text longer than 3, and
\* a line whose trimmed comment text has length 3 or less reaches neither the
\* detector nor any bucket.
C4_ShortCommentsExcluded ==
    /\ \A r \in AllRecords :
           /\ Len(r.comment_text) > 3
           /\ HasDelimiter(r.content)
           /\ r.comment_text = CommentText(r.content)
    /\ \A i \in 1..idx :
           LET line == comments[i] IN
           (/\ SplitsInThree(line)
            /\ HasDelimiter(ContentOf(line))
            /\ Len(CommentText(ContentOf(line))) <= 3) =>
               /\ CallsAt(i) = {}
               /\ ExpectedRecord(line) \notin AllRecords

\* C4 witness: the scan returned records, and read a comment of trimmed length 3.
C4_Witness ==
    /\ Scanned
    /\ AllRecords # {}
    /\ \E i \in 1..idx :
           /\ SplitsInThree(comments[i])
           /\ HasDelimiter(ContentOf(comments[i]))
           /\ Len(CommentText(ContentOf(comments[i]))) = 3

\* C5: a line whose content part has no "//" gives no record: detect() is not
\* called for it and no bucket holds a record with its file, number and content.
C5_NoDelimiterNoRecord ==
    \A i \in 1..idx :
        LET line == comments[i] IN
        (SplitsInThree(line) /\ ~HasDelimiter(ContentOf(line))) =>
            /\ CallsAt(i) = {}
            /\ \A r \in AllRecords :
                   ~(/\ r.file = FileOf(line)
                     /\ r.line = NumberOf(line)
                     /\ r.content = Trim(ContentOf(line)))

\* C5 witness: the scan returned records, and read a three-part line with
\* slashes but no "//" in its content.
C5_Witness ==
    /\ Scanned
    /\ AllRecords # {}
    /\ \E i \in 1..idx :
           /\ SplitsInThree(comments[i])
           /\ ~HasDelimiter(ContentOf(comments[i]))
           /\ \E n \in 1..Len(ContentOf(comments[i])) : ContentOf(comments[i])[n] = "/"

\* C6: a blank line, or one that does not split into three parts, is skipped:
\* no error, no detect() call, and the buckets hold exactly the records of the
\* other lines, as many as those lines that qualify.
C6_MalformedLinesSkipped ==
    LET skipped == {i \in 1..idx :
                       Trim(comments[i]) = <<>> \/ ~SplitsInThree(comments[i])}
        kept == (1..idx) \ skipped
    IN  /\ idx > 0 => Scanning
        /\ \A i \in skipped : CallsAt(i) = {}
        /\ \A i \in kept : Qualifies(comments[i]) <=> CallsAt(i) # {}
        /\ Len(comments_by_lang["es"]) + Len(comments_by_lang["en"])
               + Len(comments_by_lang["unknown"])
             = Cardinality({i \in kept : Qualifies(comments[i])})
        /\ AllRecords = {ExpectedRecord(comments[i]) : i \in {n \in kept : Qualifies(comments[n])}}

\* C6 witness: the scan returned after a two-part line that holds a comment,
\* read between two lines that gave records.
C6_Witness ==
    /\ Scanned
    /\ \E i \in 2..(idx - 1) :
           /\ Cardinality(Colons(comments[i])) = 1
           /\ HasDelimiter(comments[i])
           /\ CallsAt(i - 1) # {}
           /\ CallsAt(i + 1) # {}

IsCountLine(p) == p.fmt = "\n{file}: {count} Spanish comments"

IsCommentLine(p) ==
    p.fmt \in {"\nFile: {file}", "Line: {line}", "Content: {content}"}

RECURSIVE SumOfCounts(_)
SumOfCounts(rows) ==
    IF rows = <<>> THEN 0 ELSE Head(rows).num + SumOfCounts(Tail(rows))

\* C7: for any mapping, the summary has exactly one line per distinct file of
\* the 'es' bucket, its count is the number of 'es' records with that file, the
\* counts add up to the size of the bucket, and no other file is listed.
C7_PerFileCounts ==
    pc = "done" =>
        LET es == Get(comments_by_lang, "es")
            files == {es[k].file : k \in 1..Len(es)}
            rows == SelectSeq(out, IsCountLine)
        IN  /\ Len(rows) = Cardinality(files)
            /\ {rows[i].str : i \in 1..Len(rows)} = files
            /\ \A i \in 1..Len(rows) :
                   rows[i].num = Cardinality({k \in 1..Len(es) : es[k].file = rows[i].str})
            /\ SumOfCounts(rows) = Len(es)

\* C7 witness: the summary was printed for a mapping with two 'es' records of
\* one file and records in another bucket.
C7_Witness ==
    /\ pc = "done"
    /\ LET es == Get(comments_by_lang, "es") IN
       /\ Len(es) >= 2
       /\ es[1].file = es[2].file
       /\ es[1] # es[2]
    /\ Get(comments_by_lang, "en") # <<>>

\* C8 (as claimed): the record of each qualifying line carries the line's
\* content part and the text following the delimiter.
C8_RecordCarriesLine ==
    \A k \in Calls : Stored(k, RawRecord(comments[detect_calls[k].at]))

\* C8 (amended): each qualifying line read gives exactly one detect() call and
\* exactly one record, in the bucket of that call's result ('unknown' when it
\* raised); the record carries the file, the line number, the trimmed content
\* part and the trimmed text after the first delimiter; buckets hold nothing else.
C8_OneRecordPerComment ==
    /\ \A i \in 1..idx :
           Cardinality(CallsAt(i)) = (IF Qualifies(comments[i]) THEN 1 ELSE 0)
    /\ \A k \in Calls :
           /\ detect_calls[k].at \in 1..idx
           /\ detect_calls[k].text = CommentText(ContentOf(comments[detect_calls[k].at]))
           /\ Stored(k, ExpectedRecord(comments[detect_calls[k].at]))
    /\ \A b \in BucketNames :
           Len(comments_by_lang[b]) =
               Cardinality({k \in Calls : BucketOf(detect_calls[k].result) = b})

\* C8 witness: the scan returned a record whose content part had blanks around
\* it, from a line detected as Spanish, with another bucket in use.
C8_Witness ==
    /\ Scanned
    /\ \E k \in Calls :
           LET line == comments[detect_calls[k].at] IN
           /\ detect_calls[k].result = "es"
           /\ ContentOf(line) # Trim(ContentOf(line))
           /\ Stored(k, ExpectedRecord(line))
    /\ comments_by_lang["en"] # <<>>

\* C9: a step changes a bucket only by appending, at its end, the record of
\* the line being read, so each bucket is in scan order and keeps duplicates.
C9_AppendOnly ==
    [][\A b \in BucketNames :
           \/ comments_by_lang'[b] = comments_by_lang[b]
           \/ /\ pc = "loop"
              /\ idx' = idx + 1
              /\ comments_by_lang'[b] =
                     Append(comments_by_lang[b], ExpectedRecord(comments[idx + 1]))]_vars

\* C9 witness: a bucket holds the same record twice, after a different one.
C9_Witness ==
    /\ Scanned
    /\ \E b \in BucketNames :
           /\ Len(comments_by_lang[b]) = 3
           /\ comments_by_lang[b][1] # comments_by_lang[b][2]
           /\ comments_by_lang[b][2] = comments_by_lang[b][3]

\* C10: after the listing, the output is the header followed by file, line and
\* content of each 'es' record in bucket order, and nothing else; no other
\* bucket is printed; the summary comes after the listing.
C10_OnlySpanishListed ==
    (pc \in {"todo", "done"} /\ exc.type = "none") =>
        LET es == comments_by_lang["es"]
            n == 1 + 3 * Len(es)
        IN  /\ Len(out) >= n
            /\ out[1] = Printed("\n=== Spanish Comments (es) ===", <<>>, 0)
            /\ \A k \in 1..Len(es) :
                   /\ out[3 * k - 1] = Printed("\nFile: {file}", es[k].file, 0)
                   /\ out[3 * k] = Printed("Line: {line}", es[k].line, 0)
                   /\ out[3 * k + 1] = Printed("Content: {content}", es[k].content, 0)
            /\ Len(SelectSeq(out, IsCommentLine)) = 3 * Len(es)
            /\ pc = "todo" => Len(out) = n
            /\ pc = "done" =>
                   /\ Len(out) > n
                   /\ out[n + 1] = Printed("\n=== Files to Translate Summary ===", <<>>, 0)
                   /\ \A i \in (n + 2)..Len(out) : IsCountLine(out[i])

\* C10 witness: a run finished with two 'es' records and a record in 'unknown'.
C10_Witness ==
    /\ pc = "done"
    /\ exc.type = "none"
    /\ Len(comments_by_lang["es"]) = 2
    /\ comments_by_lang["es"][1] # comments_by_lang["es"][2]
    /\ comments_by_lang["unknown"] # <<>>
====
